---- MODULE Spec2Model ----
(***************************************************************************)
(* Model of lookout.core.event_listener: the EventListener gRPC servicer,  *)
(* its decorator pipeline (set_logging_context, timeit, log_exceptions,    *)
(* handle) around the two entry points, and its start/block/stop           *)
(* lifecycle on top of grpc.server and a ThreadPoolExecutor.               *)
(*                                                                         *)
(* A gRPC call is submitted by the transport to the thread pool, a free    *)
(* pool thread runs the entry point down to the handler invocation, the    *)
(* handler returns or raises, and the decorators unwind.  Handler          *)
(* failures range over subclasses of Exception.                            *)
(***************************************************************************)
EXTENDS Integers, Sequences, FiniteSets, TLC

(* ------------------------------ bounds --------------------------------- *)

\* the n_workers argument of EventListener.__init__
n_workers == 2

\* number of gRPC calls that arrive at a server that is never stopped
MaxCalls == 3

\* number of gRPC calls that arrive at a server that is blocked on and stopped
LifeCalls == 2

\* number of stop() invocations with a freely chosen argument in a behaviour
MaxStops == 1

\* number of further stop() invocations that repeat the argument
MaxRepeats == 1

\* largest value of time.perf_counter()
MaxTime == 1

VARIABLES
    serverStage,    \* grpc server: "created", "started", "stopped"
    stop_event,     \* self._stop_event flag
    mainPc,         \* thread that calls start() and block()
    stopPc,         \* thread that calls stop()
    cancel_running, \* argument of the stop() call in progress
    stops,          \* number of stop() calls made
    grace_timer,    \* grpc's thread that cancels the calls after the grace period
    calls,          \* the gRPC calls, by arrival order
    local,          \* slogging's thread-local logging context, per pool thread
    now,            \* time.perf_counter()
    handlers        \* the methods of the object injected as self.handlers

vars == <<serverStage, stop_event, mainPc, stopPc, cancel_running, stops,
          grace_timer, calls, local, now, handlers>>

CallIds == 1..MaxCalls

(* --------------------------- requests ---------------------------------- *)

\* lookout.core.api.event_pb2.ReviewEvent message
ReviewEvent ==
    [type |-> "ReviewEvent",
     commit_revision |->
        [base |-> [internal_repository_url |-> "file:///base", hash |-> "aaa"],
         head |-> [internal_repository_url |-> "file:///head", hash |-> "bbb"]]]

\* lookout.core.api.event_pb2.PushEvent message
PushEvent ==
    [type |-> "PushEvent",
     commit_revision |->
        [head |-> [internal_repository_url |-> "file:///push", hash |-> "ccc"]],
     distinct_commits |-> 3]

\* a request object whose type is neither ReviewEvent nor PushEvent
UnknownEvent == [type |-> "UnknownEvent"]

Requests == {ReviewEvent, PushEvent, UnknownEvent}

\* context.invocation_metadata(): a sequence of key/value pairs, keys may repeat
Metadata ==
    {<<[key |-> "user-agent", value |-> "grpc-go"]>>,
     <<[key |-> "x-tag", value |-> "one"], [key |-> "x-tag", value |-> "two"]>>}

\* context.peer()
Peers == {"ipv4:10.0.0.7:4321"}

\* values a handler method may return
Responses == {"EventResponse(populated)"}

\* exceptions a handler method may raise
HandlerExceptions == {[kind |-> "ValueError", msg |-> "boom"]}

(* --------------------- names and stringcase ---------------------------- *)

\* the characters of the identifiers the dispatch computes with
Chars(name) ==
    CASE name = "ReviewEvent" ->
            <<"R","e","v","i","e","w","E","v","e","n","t">>
      [] name = "PushEvent" ->
            <<"P","u","s","h","E","v","e","n","t">>
      [] name = "UnknownEvent" ->
            <<"U","n","k","n","o","w","n","E","v","e","n","t">>
      [] name = "process_" ->
            <<"p","r","o","c","e","s","s","_">>
      [] name = "process_review_event" ->
            <<"p","r","o","c","e","s","s","_","r","e","v","i","e","w","_","e","v","e","n","t">>
      [] name = "process_push_event" ->
            <<"p","r","o","c","e","s","s","_","p","u","s","h","_","e","v","e","n","t">>

IsUpper(ch) == ch \in {"R", "E", "P", "U"}

Lower(ch) ==
    CASE ch = "R" -> "r" [] ch = "E" -> "e" [] ch = "P" -> "p" [] ch = "U" -> "u"
      [] OTHER -> ch

RECURSIVE SnakeTail(_)
\* re.sub(r"[A-Z]", lambda m: "_" + m.group(0).lower(), string[1:])
SnakeTail(s) ==
    IF s = <<>> THEN <<>>
    ELSE (IF IsUpper(Head(s)) THEN <<"_", Lower(Head(s))>> ELSE <<Head(s)>>)
         \o SnakeTail(Tail(s))

\* a snakecase that treats the first character like the others
snakecase_first_like_rest(s) == SnakeTail(s)

\* stringcase.snakecase
snakecase(s) ==
    IF s = <<>> THEN s ELSE <<Lower(Head(s))>> \o SnakeTail(Tail(s))

\* the methods of the EventHandlers interface
EventHandlers == {"process_review_event", "process_push_event"}

(* ----------------------- context extractors ---------------------------- *)

\* an extractor that reads both hashes from the head revision
extract_review_event_context_head_twice(request) ==
    [type |-> "ReviewEvent",
     url_base |-> request.commit_revision.base.internal_repository_url,
     url_head |-> request.commit_revision.head.internal_repository_url,
     commit_base |-> request.commit_revision.head.hash,
     commit_head |-> request.commit_revision.head.hash]

\* extract_review_event_context
extract_review_event_context(request) ==
    [type |-> "ReviewEvent",
     url_base |-> request.commit_revision.base.internal_repository_url,
     url_head |-> request.commit_revision.head.internal_repository_url,
     commit_base |-> request.commit_revision.base.hash,
     commit_head |-> request.commit_revision.head.hash]

\* extract_push_event_context
extract_push_event_context(request) ==
    [type |-> "PushEvent",
     url |-> request.commit_revision.head.internal_repository_url,
     head |-> request.commit_revision.head.hash,
     count |-> request.distinct_commits]

\* the keys of the dict request_log_context_extractors
request_log_context_extractors == {"ReviewEvent", "PushEvent"}

\* request_log_context_extractors[type(request)](request)
Extract(request) ==
    IF request.type = "ReviewEvent"
    THEN extract_review_event_context(request)
    ELSE extract_push_event_context(request)

RECURSIVE FoldMeta(_)
\* meta = {}; for md in context.invocation_metadata(): meta[md.key] = md.value
FoldMeta(md) ==
    IF md = <<>> THEN <<>>
    ELSE LET n == Len(md)
         IN (md[n].key :> md[n].value) @@ FoldMeta(SubSeq(md, 1, n - 1))

\* the obj that wrapped_set_logging_context hands to slogging.set_context
LoggingObj(request, md, peer) ==
    ("peer" :> peer) @@ ("meta" :> FoldMeta(md)) @@ Extract(request)

(* ------------------------ server construction -------------------------- *)

\* a server built with one thread and one concurrent call too many
grpc_server_one_more ==
    [max_workers |-> n_workers + 1, maximum_concurrent_rpcs |-> n_workers + 1]

\* grpc.server(ThreadPoolExecutor(max_workers=n_workers),
\*             maximum_concurrent_rpcs=n_workers)
grpc_server ==
    [max_workers |-> n_workers, maximum_concurrent_rpcs |-> n_workers]

\* the threads of the ThreadPoolExecutor
Workers == 1..grpc_server.max_workers

\* NotifyPushEvent declared without @set_logging_context
Pipeline_push_without_context(entry) ==
    IF entry = "NotifyReviewEvent"
    THEN <<"set_logging_context", "timeit", "log_exceptions", "handle">>
    ELSE <<"timeit", "log_exceptions", "handle">>

\* the entry points declared with @timeit above @set_logging_context
Pipeline_timeit_first(entry) ==
    <<"timeit", "set_logging_context", "log_exceptions", "handle">>

\* the entry points declared without @timeit
Pipeline_without_timeit(entry) ==
    <<"set_logging_context", "log_exceptions", "handle">>

\* the entry points declared with @handle above @log_exceptions
Pipeline_handle_outside_try(entry) ==
    <<"set_logging_context", "timeit", "handle", "log_exceptions">>

\* the decorators of an entry point, outermost first
Pipeline(entry) ==
    IF entry = "NotifyReviewEvent"
    THEN <<"set_logging_context", "timeit", "log_exceptions", "handle">>
    ELSE <<"set_logging_context", "timeit", "log_exceptions", "handle">>

\* the entry point the service routes a request to
EntryPoints(request) ==
    CASE request.type = "ReviewEvent" -> {"NotifyReviewEvent"}
      [] request.type = "PushEvent" -> {"NotifyPushEvent"}
      [] OTHER -> {"NotifyReviewEvent", "NotifyPushEvent"}

\* a call that has not arrived; context holds the attributes set on the
\* grpc.ServicerContext of the call, accepted_at the number of stop() requests
\* made before the call was accepted
NoCall ==
    [pc |-> "idle", entry |-> "", request |-> [type |-> "None"], md |-> <<>>,
     peer |-> "", worker |-> 0, depth |-> 0, context |-> <<>>,
     exc |-> <<>>, ret |-> <<>>, trace |-> <<>>, handled |-> <<>>,
     cancelled |-> FALSE, status |-> "", accepted_at |-> 0]

\* calls the transport counts as active: submitted to the pool and not finished
Active(c) == calls[c].pc \in {"submitted", "handler", "unwind", "done"}

\* grpc's active_rpc_count
active_rpc_count == Cardinality({c \in CallIds : Active(c)})

\* a pool thread that is executing a work item
Busy(w) == \E c \in CallIds : calls[c].worker = w /\ calls[c].pc \in {"handler", "unwind", "done"}

(* --------------------------- the decorators ---------------------------- *)

\* getattr(context, name, default)
getattr(context, name, default) ==
    IF name \in DOMAIN context THEN context[name] ELSE default

\* slogging.set_context(obj): replaces the context of the current thread
set_context(tl, obj) == obj

\* str(type(e))
TypeRepr(kind) == "<class '" \o kind \o "'>"

\* "%s: %s" % (type(e), e)
Details(e) == <<TypeRepr(e.kind), ": ", e.msg>>

Entry(ev, arg, val) == [ev |-> ev, arg |-> arg, val |-> val]

\* self.handlers has the attribute method_name
HasHandler(method_name) == \E m \in handlers : Chars(m) = method_name

\* the part of wrapped_handle up to the call of the handler method
handle_down(c, i) ==
    LET method_name == Chars("process_") \o snakecase(Chars(c.request.type))
    IN IF HasHandler(method_name)
       THEN LET m == CHOOSE h \in handlers : Chars(h) = method_name
            IN [c EXCEPT !.pc = "handler", !.depth = i - 1,
                         !.handled = Append(@, [method |-> m, request |-> c.request]),
                         !.trace = Append(@, Entry("invoke", m, 0))]
       ELSE [c EXCEPT !.pc = "unwind", !.depth = i - 1,
                      !.exc = <<[kind |-> "AttributeError", msg |-> "no such method"]>>]

\* an except clause that logs the failure and raises it again
catch_and_reraise(c, t) ==
    [c EXCEPT !.trace = Append(@, Entry("log", "FAIL ?", 0))]

\* an except clause that does not set the status code of the call
catch_them_all_without_code(c, t) ==
    LET e == c.exc[1]
        start_time == getattr(c.context, "start_time", -1)
        logged == IF start_time # -1
                  THEN Entry("log", "FAIL", t - start_time)
                  ELSE Entry("log", "FAIL ?", 0)
    IN [c EXCEPT !.context = ("error" :> TRUE) @@ ("details" :> Details(e)) @@ @,
                 !.trace = @ \o <<logged, Entry("metric", "error", 1)>>,
                 !.exc = <<>>,
                 !.ret = <<"EventResponse()">>]

\* the except clause of wrapped_catch_them_all
catch_them_all(c, t) ==
    LET e == c.exc[1]
        start_time == getattr(c.context, "start_time", -1)
        logged == IF start_time # -1
                  THEN Entry("log", "FAIL", t - start_time)
                  ELSE Entry("log", "FAIL ?", 0)
    IN [c EXCEPT !.context = ("error" :> TRUE) @@ ("details" :> Details(e))
                              @@ ("code" :> "INTERNAL") @@ @,
                 !.trace = @ \o <<logged, Entry("metric", "error", 1)>>,
                 !.exc = <<>>,
                 !.ret = <<"EventResponse()">>]

\* wrapped_timeit that records the metric without looking at context.error
timeit_up_unconditional(c, t) ==
    LET delta == t - c.context["start_time"]
    IN [c EXCEPT !.trace = @ \o <<Entry("metric", "request." \o c.request.type, delta),
                                  Entry("log", "OK", delta)>>]

\* wrapped_timeit without its `return result`
timeit_up_drops_result(c, t) ==
    IF ~getattr(c.context, "error", FALSE)
    THEN LET delta == t - c.context["start_time"]
         IN [c EXCEPT !.trace = @ \o <<Entry("metric", "request." \o c.request.type, delta),
                                       Entry("log", "OK", delta)>>,
                      !.ret = <<"None">>]
    ELSE [c EXCEPT !.ret = <<"None">>]

\* wrapped_timeit with the error flag kept on the listener, where every call
\* in flight sets and reads it, instead of on the ServicerContext of the call
timeit_up_shared_flag(c, t) ==
    IF ~(\E d \in CallIds : getattr(calls[d].context, "error", FALSE))
    THEN LET delta == t - c.context["start_time"]
         IN [c EXCEPT !.trace = @ \o <<Entry("metric", "request." \o c.request.type, delta),
                                       Entry("log", "OK", delta)>>]
    ELSE c

\* wrapped_timeit that subtracts the end of the call from its start
timeit_up_backwards(c, t) ==
    IF ~getattr(c.context, "error", FALSE)
    THEN LET delta == c.context["start_time"] - t
         IN [c EXCEPT !.trace = @ \o <<Entry("metric", "request." \o c.request.type, delta),
                                       Entry("log", "OK", delta)>>]
    ELSE c

\* the part of wrapped_timeit after func returned
timeit_up(c, t) ==
    IF ~getattr(c.context, "error", FALSE)
    THEN LET delta == t - c.context["start_time"]
         IN [c EXCEPT !.trace = @ \o <<Entry("metric", "request." \o c.request.type, delta),
                                       Entry("log", "OK", delta)>>]
    ELSE c

RECURSIVE Down(_, _, _)
\* runs the decorators from position i inwards, on the thread whose logging
\* context is e.tl, until the handler is invoked or an exception is raised
Down(i, e, t) ==
    LET c == e.c
        P == Pipeline(c.entry)
    IN IF i > Len(P)
       THEN [e EXCEPT !.c = [c EXCEPT !.pc = "unwind", !.depth = i - 1, !.ret = <<"None">>]]
       ELSE CASE P[i] = "set_logging_context" ->
                    IF c.request.type \notin request_log_context_extractors
                    THEN [e EXCEPT !.c = [c EXCEPT !.pc = "unwind", !.depth = i - 1,
                              !.exc = <<[kind |-> "KeyError", msg |-> TypeRepr(c.request.type)]>>]]
                    ELSE Down(i + 1,
                              [c |-> [c EXCEPT !.trace = @ \o
                                        <<Entry("set_context", c.request.type, 0),
                                          Entry("log", "new " \o c.request.type, 0)>>],
                               tl |-> set_context(e.tl, LoggingObj(c.request, c.md, c.peer))],
                              t)
              [] P[i] = "timeit" ->
                    Down(i + 1,
                         [e EXCEPT !.c = [c EXCEPT !.context = ("start_time" :> t) @@ @,
                                                   !.trace = Append(@, Entry("start_time", "", t))]],
                         t)
              [] P[i] = "log_exceptions" ->
                    Down(i + 1, e, t)
              [] P[i] = "handle" ->
                    [e EXCEPT !.c = handle_down(c, i)]

RECURSIVE Up(_, _, _)
\* unwinds the decorators from position i outwards with the result (c.ret)
\* or the exception (c.exc) of the wrapped function
Up(i, c, t) ==
    LET P == Pipeline(c.entry)
    IN IF i = 0
       THEN [c EXCEPT !.pc = "done", !.depth = 0]
       ELSE CASE P[i] = "log_exceptions" /\ c.exc # <<>> ->
                    Up(i - 1, catch_them_all(c, t), t)
              [] P[i] = "timeit" /\ c.exc = <<>> ->
                    Up(i - 1, timeit_up(c, t), t)
              [] OTHER ->
                    Up(i - 1, c, t)

(* ------------------------------ states --------------------------------- *)

Init ==
    /\ serverStage = "created"
    /\ stop_event = FALSE
    /\ mainPc = "created"
    /\ stopPc = "idle"
    /\ cancel_running = FALSE
    /\ stops = 0
    /\ grace_timer = FALSE
    /\ calls = [c \in CallIds |-> NoCall]
    /\ local = [w \in Workers |-> <<>>]
    /\ now = 0
    /\ handlers = EventHandlers

(* ----------------------------- lifecycle ------------------------------- *)

\* EventListener.start
Start ==
    /\ mainPc = "created"
    /\ serverStage' = "started"
    /\ mainPc' = "started"
    /\ UNCHANGED <<stop_event, stopPc, cancel_running, stops, grace_timer, calls, local, now>>
    /\ UNCHANGED handlers

\* EventListener.block: self._stop_event.clear()
BlockClear ==
    /\ mainPc = "started"
    /\ stop_event' = FALSE
    /\ mainPc' = "block_wait"
    /\ UNCHANGED <<serverStage, stopPc, cancel_running, stops, grace_timer, calls, local, now>>
    /\ UNCHANGED handlers

\* EventListener.block: self._stop_event.wait() returns once the flag is set
BlockWake ==
    /\ mainPc = "block_wait"
    /\ stop_event
    /\ mainPc' = "block_returned"
    /\ UNCHANGED <<serverStage, stop_event, stopPc, cancel_running, stops, grace_timer,
                   calls, local, now>>
    /\ UNCHANGED handlers

\* EventListener.block: KeyboardInterrupt raised inside wait() is swallowed
BlockInterrupt ==
    /\ mainPc = "block_wait"
    /\ mainPc' = "block_returned"
    /\ UNCHANGED <<serverStage, stop_event, stopPc, cancel_running, stops, grace_timer,
                   calls, local, now>>
    /\ UNCHANGED handlers

\* EventListener.stop: self._stop_event.set()
StopSet(cr) ==
    /\ serverStage # "created"
    /\ stopPc \in {"idle", "returned"}
    /\ stops < MaxStops
    /\ stops' = stops + 1
    /\ cancel_running' = cr
    /\ stop_event' = TRUE
    /\ stopPc' = "server_stop"
    /\ UNCHANGED <<serverStage, mainPc, grace_timer, calls, local, now>>
    /\ UNCHANGED handlers

\* EventListener.stop called once more, with the argument of the call before:
\* self._stop_event.set()
StopRepeat ==
    /\ stopPc = "returned"
    /\ stops >= MaxStops
    /\ stops < MaxStops + MaxRepeats
    /\ stops' = stops + 1
    /\ stop_event' = TRUE
    /\ stopPc' = "server_stop"
    /\ UNCHANGED <<serverStage, mainPc, cancel_running, grace_timer, calls, local, now>>
    /\ UNCHANGED handlers

\* grpc: server.cancel_all_calls()
cancel_all_calls ==
    [c \in CallIds |-> IF Active(c) THEN [calls[c] EXCEPT !.cancelled = TRUE] ELSE calls[c]]

\* the grace argument of self._server.stop: None if cancel_running else 0
Grace(cr) == IF cr THEN "None" ELSE "0"

\* a stop() that sets the stop event and returns without stopping the server
ServerStop_skipped ==
    /\ stopPc = "server_stop"
    /\ stopPc' = "returned"
    /\ UNCHANGED <<serverStage, calls, grace_timer>>
    /\ UNCHANGED <<stop_event, mainPc, cancel_running, stops, local, now>>
    /\ UNCHANGED handlers

\* a server whose stop() may be called only once: stopping the stopped server
\* raises
ServerStop_once ==
    /\ stopPc = "server_stop"
    /\ IF serverStage = "stopped"
       THEN /\ stopPc' = "raised"
            /\ UNCHANGED <<serverStage, calls, grace_timer>>
       ELSE /\ serverStage' = "stopped"
            /\ IF Grace(cancel_running) = "None"
               THEN /\ calls' = cancel_all_calls
                    /\ stopPc' = "shutdown_wait"
                    /\ UNCHANGED grace_timer
               ELSE /\ grace_timer' = TRUE
                    /\ stopPc' = "returned"
                    /\ UNCHANGED calls
    /\ UNCHANGED <<stop_event, mainPc, cancel_running, stops, local, now>>
    /\ UNCHANGED handlers

\* EventListener.stop: self._server.stop(None if cancel_running else 0).
\* grpc stops accepting calls; with grace None it cancels the active calls
\* and blocks until their handlers have terminated, with a grace period it
\* returns at once and cancels the active calls when the period has elapsed.
ServerStop ==
    /\ stopPc = "server_stop"
    /\ serverStage' = "stopped"
    /\ IF Grace(cancel_running) = "None"
       THEN /\ calls' = cancel_all_calls
            /\ stopPc' = "shutdown_wait"
            /\ UNCHANGED grace_timer
       ELSE /\ grace_timer' = TRUE
            /\ stopPc' = "returned"
            /\ UNCHANGED calls
    /\ UNCHANGED <<stop_event, mainPc, cancel_running, stops, local, now>>
    /\ UNCHANGED handlers

\* EventListener.stop: self._server.stop(None) returns when no handler runs
ShutdownWait ==
    /\ stopPc = "shutdown_wait"
    /\ active_rpc_count = 0
    /\ stopPc' = "returned"
    /\ UNCHANGED <<serverStage, stop_event, mainPc, cancel_running, stops, grace_timer,
                   calls, local, now>>
    /\ UNCHANGED handlers

\* grpc: the grace period of self._server.stop(0) has elapsed
GraceElapsed ==
    /\ grace_timer
    /\ grace_timer' = FALSE
    /\ calls' = cancel_all_calls
    /\ UNCHANGED <<serverStage, stop_event, mainPc, stopPc, cancel_running, stops, local, now>>
    /\ UNCHANGED handlers

(* ------------------------------- calls --------------------------------- *)

\* a call arrives: a stopped server refuses it, a started server rejects it
\* when maximum_concurrent_rpcs calls are active and submits it to the
\* thread pool otherwise
Arrive(c, request, entry, md, peer) ==
    /\ serverStage # "created"
    /\ calls[c].pc = "idle"
    /\ \A d \in CallIds : d < c => calls[d].pc # "idle"
    /\ calls' = [calls EXCEPT ![c] =
                    IF serverStage = "stopped"
                    THEN [@ EXCEPT !.pc = "refused", !.status = "UNAVAILABLE"]
                    ELSE IF active_rpc_count >= grpc_server.maximum_concurrent_rpcs
                    THEN [@ EXCEPT !.pc = "rejected", !.status = "RESOURCE_EXHAUSTED"]
                    ELSE [@ EXCEPT !.pc = "submitted", !.request = request, !.entry = entry,
                                   !.md = md, !.peer = peer, !.accepted_at = stops]]
    /\ UNCHANGED <<serverStage, stop_event, mainPc, stopPc, cancel_running, stops,
                   grace_timer, local, now>>
    /\ UNCHANGED handlers

\* an idle pool thread takes the oldest submitted call and runs its entry
\* point up to the handler invocation
Run(c, w) ==
    /\ calls[c].pc = "submitted"
    /\ \A d \in CallIds : d < c => calls[d].pc # "submitted"
    /\ ~Busy(w)
    /\ LET e == Down(1, [c |-> [calls[c] EXCEPT !.worker = w], tl |-> local[w]], now)
       IN /\ calls' = [calls EXCEPT ![c] = e.c]
          /\ local' = [local EXCEPT ![w] = e.tl]
    /\ UNCHANGED <<serverStage, stop_event, mainPc, stopPc, cancel_running, stops,
                   grace_timer, now>>
    /\ UNCHANGED handlers

\* the handler method returns resp after d units of time
HandlerReturn(c, resp, d) ==
    /\ calls[c].pc = "handler"
    /\ now + d <= MaxTime
    /\ now' = now + d
    /\ calls' = [calls EXCEPT ![c] =
                    [@ EXCEPT !.pc = "unwind", !.ret = <<resp>>,
                              !.trace = Append(@, Entry("handler_end", "returned", 0))]]
    /\ UNCHANGED <<serverStage, stop_event, mainPc, stopPc, cancel_running, stops,
                   grace_timer, local>>
    /\ UNCHANGED handlers

\* the handler method raises e after d units of time
HandlerRaise(c, e, d) ==
    /\ calls[c].pc = "handler"
    /\ now + d <= MaxTime
    /\ now' = now + d
    /\ calls' = [calls EXCEPT ![c] =
                    [@ EXCEPT !.pc = "unwind", !.exc = <<e>>,
                              !.trace = Append(@, Entry("handler_end", "raised", 0))]]
    /\ UNCHANGED <<serverStage, stop_event, mainPc, stopPc, cancel_running, stops,
                   grace_timer, local>>
    /\ UNCHANGED handlers

\* the decorators unwind and the entry point returns or raises
Unwind(c) ==
    /\ calls[c].pc = "unwind"
    /\ calls' = [calls EXCEPT ![c] = Up(calls[c].depth, calls[c], now)]
    /\ UNCHANGED <<serverStage, stop_event, mainPc, stopPc, cancel_running, stops,
                   grace_timer, local, now>>
    /\ UNCHANGED handlers

\* the status the caller of a finished call receives: CANCELLED when the
\* transport aborted the call, UNKNOWN when the entry point raised, else the
\* code set on the ServicerContext
StatusOf(c) ==
    IF c.cancelled THEN "CANCELLED"
    ELSE IF c.exc # <<>> THEN "UNKNOWN"
    ELSE getattr(c.context, "code", "OK")

\* the pool thread ends the work item: the transport completes the call,
\* discards its ServicerContext, and the thread becomes idle
Release(c) ==
    /\ calls[c].pc = "done"
    /\ calls' = [calls EXCEPT ![c] =
                    [NoCall EXCEPT !.pc = "released", !.worker = calls[c].worker,
                                   !.accepted_at = calls[c].accepted_at,
                                   !.status = StatusOf(calls[c])]]
    /\ UNCHANGED <<serverStage, stop_event, mainPc, stopPc, cancel_running, stops,
                   grace_timer, local, now>>
    /\ UNCHANGED handlers

\* the server with its whole lifecycle: started, blocked on, stopped
Next ==
    \/ Start
    \/ BlockClear
    \/ BlockWake
    \/ BlockInterrupt
    \/ \E cr \in BOOLEAN : StopSet(cr)
    \/ ServerStop
    \/ ShutdownWait
    \/ GraceElapsed
    \/ \E c \in 1..LifeCalls, request \in Requests, md \in Metadata, peer \in Peers :
            \E entry \in EntryPoints(request) : Arrive(c, request, entry, md, peer)
    \/ \E c \in CallIds, w \in Workers : Run(c, w)
    \/ \E c \in CallIds, resp \in Responses, d \in 0..1 : HandlerReturn(c, resp, d)
    \/ \E c \in CallIds, e \in HandlerExceptions, d \in 0..1 : HandlerRaise(c, e, d)
    \/ \E c \in CallIds : Unwind(c)
    \/ \E c \in CallIds : Release(c)

Spec == Init /\ [][Next]_vars

\* the server started and serving, never stopped
ServingNext ==
    \/ Start
    \/ \E c \in CallIds, request \in Requests, md \in Metadata, peer \in Peers :
            \E entry \in EntryPoints(request) : Arrive(c, request, entry, md, peer)
    \/ \E c \in CallIds, w \in Workers : Run(c, w)
    \/ \E c \in CallIds, resp \in Responses, d \in 0..1 : HandlerReturn(c, resp, d)
    \/ \E c \in CallIds, e \in HandlerExceptions, d \in 0..1 : HandlerRaise(c, e, d)
    \/ \E c \in CallIds : Unwind(c)
    \/ \E c \in CallIds : Release(c)

ServingSpec == Init /\ [][ServingNext]_vars

\* __init__ stores whatever object it is given as self.handlers (line 93):
\* the annotation is not enforced, so the object may lack either method
RoutingInit ==
    /\ serverStage = "created"
    /\ stop_event = FALSE
    /\ mainPc = "created"
    /\ stopPc = "idle"
    /\ cancel_running = FALSE
    /\ stops = 0
    /\ grace_timer = FALSE
    /\ calls = [c \in CallIds |-> NoCall]
    /\ local = [w \in Workers |-> <<>>]
    /\ now = 0
    /\ handlers \in SUBSET EventHandlers

RoutingSpec == RoutingInit /\ [][ServingNext]_vars

\* a listener that is started and stopped, then stopped again with the same
\* argument, while it serves calls; block() is not called
RepeatNext ==
    \/ Start
    \/ \E cr \in BOOLEAN : StopSet(cr)
    \/ StopRepeat
    \/ ServerStop
    \/ ShutdownWait
    \/ GraceElapsed
    \/ \E c \in 1..LifeCalls, request \in Requests, md \in Metadata, peer \in Peers :
            \E entry \in EntryPoints(request) : Arrive(c, request, entry, md, peer)
    \/ \E c \in CallIds, w \in Workers : Run(c, w)
    \/ \E c \in CallIds, resp \in Responses, d \in 0..1 : HandlerReturn(c, resp, d)
    \/ \E c \in CallIds, e \in HandlerExceptions, d \in 0..1 : HandlerRaise(c, e, d)
    \/ \E c \in CallIds : Unwind(c)
    \/ \E c \in CallIds : Release(c)

RepeatSpec == Init /\ [][RepeatNext]_vars

\* the threads of the lifecycle make progress: a thread waiting on the stop
\* event wakes up once it is set, and the steps of stop() and of grpc's
\* grace timer are taken; calls and their handlers may stall
FairSpec ==
    /\ Spec
    /\ WF_vars(BlockWake)
    /\ WF_vars(ServerStop)
    /\ WF_vars(ShutdownWait)
    /\ WF_vars(GraceElapsed)

(* ------------------------------ claims --------------------------------- *)

\* a call whose request is one of the two event variants
Valid(c) == calls[c].request.type \in {"ReviewEvent", "PushEvent"}

\* number of entries of trace tr that are the event ev with argument arg
RECURSIVE Count(_, _, _)
Count(tr, ev, arg) ==
    IF tr = <<>> THEN 0
    ELSE (IF Head(tr).ev = ev /\ Head(tr).arg = arg THEN 1 ELSE 0) + Count(Tail(tr), ev, arg)

SuccessMetrics(c) == Count(calls[c].trace, "metric", "request." \o calls[c].request.type)

ErrorMetrics(c) == Count(calls[c].trace, "metric", "error")

\* C1: every call of an entry point with a ReviewEvent or PushEvent, whether
\* the handler returned or raised, returns exactly one Response and has
\* emitted exactly one of the success metric request.<EventType> and the
\* error metric; while the call runs it has never emitted both.
C1_OneResponseOneMetric ==
    \A c \in CallIds :
        Valid(c) =>
            /\ SuccessMetrics(c) + ErrorMetrics(c) <= 1
            /\ calls[c].pc = "done" =>
                    /\ calls[c].exc = <<>>
                    /\ Len(calls[c].ret) = 1
                    /\ calls[c].ret[1] \in Responses \cup {"EventResponse()"}
                    /\ SuccessMetrics(c) + ErrorMetrics(c) = 1

\* one call has returned after its handler raised and another after its
\* handler returned
C1_Witness ==
    \E c, d \in CallIds :
        /\ calls[c].pc = "done" /\ ErrorMetrics(c) = 1
        /\ calls[d].pc = "done" /\ SuccessMetrics(d) = 1

\* the handler method of call c was invoked and raised
HandlerRaised(c) == Count(calls[c].trace, "handler_end", "raised") = 1

\* C2: when the entry point of a call whose handler raised finishes, it
\* returns the empty EventResponse with the INTERNAL code set, no other call
\* and no thread's logging context is changed by that step, and when the
\* work item ends the pool thread that served the call is idle again.
C2_HandlerFaultContained ==
    [][\A c \in CallIds :
          /\ (HandlerRaised(c) /\ calls[c].pc = "unwind" /\ calls'[c].pc = "done") =>
                /\ calls'[c].exc = <<>>
                /\ calls'[c].ret = <<"EventResponse()">>
                /\ getattr(calls'[c].context, "code", "OK") = "INTERNAL"
                /\ \A d \in CallIds \ {c} : calls'[d] = calls[d]
                /\ local' = local
          /\ (calls[c].pc = "done" /\ calls'[c].pc = "released") =>
                /\ ~Busy(calls[c].worker)'
                /\ \A d \in CallIds \ {c} : calls'[d] = calls[d]
      ]_vars

\* a pool thread that served a call answered with INTERNAL is running the
\* handler of a later call
C2_Witness ==
    \E c, d \in CallIds :
        /\ c < d
        /\ calls[c].pc = "released" /\ calls[c].status = "INTERNAL"
        /\ calls[d].pc = "handler" /\ calls[d].worker = calls[c].worker

\* C3: no call of NotifyReviewEvent or NotifyPushEvent raises: whatever
\* stage a failure occurs in, the entry point returns a Response.
C3_NeverRaises ==
    \A c \in CallIds :
        calls[c].pc = "done" => calls[c].exc = <<>> /\ Len(calls[c].ret) = 1

\* C4: once stop(cancel_running=False) has returned, every call accepted
\* before that stop request has completed, and none of them was aborted.
C4_GracefulStopWaits ==
    (stopPc = "returned" /\ ~cancel_running) =>
        \A c \in CallIds :
            (calls[c].pc \notin {"idle", "rejected", "refused"} /\ calls[c].accepted_at < stops) =>
                /\ calls[c].pc = "released"
                /\ calls[c].status # "CANCELLED"

\* C5: whenever block() waits and stop() has asserted the stop signal,
\* before or after block() was entered, block() eventually returns.
C5_BlockReturns ==
    (mainPc = "block_wait" /\ stops > 0) ~> (mainPc = "block_returned")

\* calls that occupy a pool thread
Running == {c \in CallIds : calls[c].pc \in {"handler", "unwind", "done"}}

\* C6: at most n_workers calls are inside their handler invocation at the
\* same time, and at most n_workers calls occupy a thread at all: a further
\* call is queued or rejected.
C6_ConcurrencyBound ==
    /\ Cardinality({c \in CallIds : calls[c].pc = "handler"}) <= n_workers
    /\ Cardinality(Running) <= n_workers

\* n_workers calls are inside their handlers and a further call has been
\* rejected
C6_Witness ==
    /\ Cardinality({c \in CallIds : calls[c].pc = "handler"}) = n_workers
    /\ \E c \in CallIds : calls[c].pc = "rejected"

\* the calls that are past the context stage and still inside the entry point
InCall == {c \in CallIds : Valid(c) /\ calls[c].pc \in {"handler", "unwind"}}

\* ctx has the type of the request and exactly the fields of its variant,
\* read from the request, plus meta and peer
FieldsOf(ctx, c) ==
    /\ {"type", "meta", "peer"} \subseteq DOMAIN ctx
    /\ ctx.type = c.request.type
    /\ ctx.peer = c.peer
    /\ IF c.request.type = "ReviewEvent"
       THEN /\ DOMAIN ctx = {"type", "url_base", "url_head", "commit_base", "commit_head",
                             "meta", "peer"}
            /\ ctx.url_base = c.request.commit_revision.base.internal_repository_url
            /\ ctx.url_head = c.request.commit_revision.head.internal_repository_url
            /\ ctx.commit_base = c.request.commit_revision.base.hash
            /\ ctx.commit_head = c.request.commit_revision.head.hash
       ELSE /\ DOMAIN ctx = {"type", "url", "head", "count", "meta", "peer"}
            /\ ctx.url = c.request.commit_revision.head.internal_repository_url
            /\ ctx.head = c.request.commit_revision.head.hash
            /\ ctx.count = c.request.distinct_commits

\* C7 as claimed: throughout a call the logging context of its thread has
\* the type and exactly the fields of the call's variant, peer, and a meta
\* that holds every key/value pair of the call's metadata.
C7_ContextHoldsAllPairs ==
    \A c \in InCall :
        LET ctx == local[calls[c].worker]
            md == calls[c].md
        IN /\ FieldsOf(ctx, calls[c])
           /\ DOMAIN ctx.meta = {md[i].key : i \in 1..Len(md)}
           /\ \A i \in 1..Len(md) : ctx.meta[md[i].key] = md[i].value

\* C7 amended: throughout a call the logging context of its thread has the
\* type and exactly the fields of the call's variant, peer, and a meta that
\* maps every metadata key to the value of the last pair with that key.
C7_ContextHoldsLastPairs ==
    \A c \in InCall :
        LET ctx == local[calls[c].worker]
            md == calls[c].md
        IN /\ FieldsOf(ctx, calls[c])
           /\ DOMAIN ctx.meta = {md[i].key : i \in 1..Len(md)}
           /\ \A i \in 1..Len(md) :
                 (\A j \in (i + 1)..Len(md) : md[j].key # md[i].key) =>
                     ctx.meta[md[i].key] = md[i].value

\* a ReviewEvent call is inside its handler on a thread whose two earlier
\* calls were a PushEvent call and a call with a repeated metadata key
C7_Witness ==
    \E c \in InCall :
        /\ c = 3
        /\ calls[c].request.type = "ReviewEvent"
        /\ Len(calls[c].md) = 1
        /\ \A d \in 1..2 : calls[d].pc = "released" /\ calls[d].worker = calls[c].worker
                              /\ calls[d].status \in {"OK", "INTERNAL"}

\* ctx is the logging context built from the event of call c
OwnContext(ctx, c) ==
    /\ {"type", "meta", "peer"} \subseteq DOMAIN ctx
    /\ ctx.type = c.request.type
    /\ ctx.peer = c.peer
    /\ DOMAIN ctx.meta = {c.md[i].key : i \in 1..Len(c.md)}

\* C8: the step that takes a call into its handler leaves on its thread the
\* logging context built from that call's own event, and while the call is
\* inside the entry point no step of any call changes that thread's context.
C8_ContextConfined ==
    [][\A c \in CallIds :
          /\ (Valid(c) /\ calls[c].pc = "submitted" /\ calls'[c].pc = "handler") =>
                OwnContext(local'[calls'[c].worker], calls'[c])
          /\ (calls[c].pc \in {"handler", "unwind"}) =>
                local'[calls[c].worker] = local[calls[c].worker]
      ]_vars

\* two calls with different events are inside the entry point on the two
\* threads at the same time, each thread holding its own call's context
C8_Witness ==
    \E c, d \in InCall :
        /\ calls[c].worker # calls[d].worker
        /\ calls[c].request.type # calls[d].request.type
        /\ calls[c].md # calls[d].md
        /\ calls[c].pc = "unwind" /\ calls[d].pc = "handler"
        /\ local[calls[c].worker] # local[calls[d].worker]

\* the position of a trace entry in the order of the stages
Rank(en) ==
    CASE en.ev = "set_context" -> 1
      [] en.ev = "log" /\ en.arg \in {"new ReviewEvent", "new PushEvent"} -> 2
      [] en.ev = "start_time" -> 3
      [] en.ev = "invoke" -> 4
      [] en.ev = "handler_end" -> 5
      [] en.ev = "log" /\ en.arg \in {"FAIL", "FAIL ?"} -> 6
      [] en.ev = "metric" /\ en.arg = "error" -> 7
      [] en.ev = "metric" -> 6
      [] en.ev = "log" /\ en.arg = "OK" -> 7
      [] OTHER -> 0

\* C9: in every call the context is installed and "new <EventType>" logged
\* before the start timestamp is taken, the timestamp is taken before the
\* handler is invoked, and the FAIL log and error metric, or the success
\* metric and OK log, come after the handler has ended; a call whose handler
\* raised emits no success metric and no OK log.
C9_StageOrder ==
    \A c \in CallIds :
        LET tr == calls[c].trace
        IN /\ \A i \in 1..Len(tr) : Rank(tr[i]) > 0
           /\ \A i, j \in 1..Len(tr) : i < j => Rank(tr[i]) < Rank(tr[j])
           /\ (Valid(c) /\ calls[c].pc = "handler") => Len(tr) = 4
           /\ (Valid(c) /\ calls[c].pc = "done") => Len(tr) = 7

\* one call has finished with its FAIL log and error metric and another
\* with its success metric and OK log
C9_Witness ==
    \E c, d \in CallIds :
        /\ calls[c].pc = "done" /\ Count(calls[c].trace, "log", "FAIL") = 1
        /\ calls[d].pc = "done" /\ Count(calls[d].trace, "log", "OK") = 1

\* the handler method that matches a variant
Matching(type) ==
    IF type = "ReviewEvent" THEN "process_review_event" ELSE "process_push_event"

\* C10: a ReviewEvent or PushEvent call never invokes a handler method more
\* than once nor the method of the other variant, and when the entry point
\* has returned it has invoked the method of its own variant exactly once,
\* with its own event.
C10_DispatchedOnce ==
    \A c \in CallIds :
        Valid(c) =>
            /\ Len(calls[c].handled) <= 1
            /\ \A i \in 1..Len(calls[c].handled) :
                    /\ calls[c].handled[i].method = Matching(calls[c].request.type)
                    /\ calls[c].handled[i].request = calls[c].request
            /\ calls[c].pc \in {"handler", "unwind", "done"} => Len(calls[c].handled) = 1

\* a ReviewEvent call and a PushEvent call have both returned
C10_Witness ==
    \E c, d \in CallIds :
        /\ calls[c].pc = "done" /\ calls[c].request.type = "ReviewEvent"
        /\ calls[c].handled[1].method = "process_review_event"
        /\ calls[d].pc = "done" /\ calls[d].request.type = "PushEvent"
        /\ calls[d].handled[1].method = "process_push_event"

\* the entries a step appended to the trace of call c
Appended(c) ==
    SubSeq(calls'[c].trace, Len(calls[c].trace) + 1, Len(calls'[c].trace))

IsTimingMetric(en) == en.ev = "metric" /\ en.arg # "error"

\* C11: the timing metric "request.<EventType>" is recorded only when the
\* call's error flag is false at the moment the wrapped call returns, and the
\* recorded duration is the time of that moment minus the start timestamp of
\* the same call, which is never negative.
C11_TimingMetricGuarded ==
    [][\A c \in CallIds :
          calls[c].pc = "unwind" =>
              \A k \in DOMAIN Appended(c) :
                  IsTimingMetric(Appended(c)[k]) =>
                      /\ Appended(c)[k].arg = "request." \o calls[c].request.type
                      /\ ~getattr(calls'[c].context, "error", FALSE)
                      /\ "start_time" \in DOMAIN calls[c].context
                      /\ Count(calls[c].trace, "start_time", "") = 1
                      /\ \E j \in DOMAIN calls[c].trace :
                             /\ calls[c].trace[j].ev = "start_time"
                             /\ calls[c].trace[j].val = calls[c].context["start_time"]
                      /\ Appended(c)[k].val = now - calls[c].context["start_time"]
                      /\ Appended(c)[k].val >= 0]_vars

\* a call has recorded a timing metric with a duration that is not zero,
\* while another call has set its error flag and recorded none
C11_Witness ==
    \E c, d \in CallIds :
        /\ calls[c].pc = "done"
        /\ \E k \in DOMAIN calls[c].trace :
               IsTimingMetric(calls[c].trace[k]) /\ calls[c].trace[k].val > 0
        /\ calls[d].pc = "done"
        /\ getattr(calls[d].context, "error", FALSE)
        /\ SuccessMetrics(d) = 0

\* what the except clause of wrapped_catch_them_all writes on the context
FailureFields == {"code", "details", "error"}

\* C12: when the handler of a call raised, the finished call has the status
\* code INTERNAL, a details string and the error flag set on its context, has
\* emitted the metric "error" exactly once and with the count 1, and returns
\* the empty default EventResponse; as long as the handler has not raised,
\* and when it returned, the context has no code, no details and no error
\* flag and no "error" metric is emitted.
C12_FailureMarksSuccessDoesNot ==
    \A c \in CallIds :
        Valid(c) =>
            /\ (calls[c].pc = "done" /\ HandlerRaised(c)) =>
                    /\ FailureFields \subseteq DOMAIN calls[c].context
                    /\ calls[c].context["code"] = "INTERNAL"
                    /\ Len(calls[c].context["details"]) > 0
                    /\ calls[c].context["error"] = TRUE
                    /\ ErrorMetrics(c) = 1
                    /\ \A k \in DOMAIN calls[c].trace :
                           (calls[c].trace[k].ev = "metric" /\ calls[c].trace[k].arg = "error")
                               => calls[c].trace[k].val = 1
                    /\ calls[c].ret = <<"EventResponse()">>
            /\ (calls[c].pc \in {"handler", "unwind", "done"} /\ ~HandlerRaised(c)) =>
                    /\ FailureFields \cap DOMAIN calls[c].context = {}
                    /\ ErrorMetrics(c) = 0

\* one call whose handler raised and one whose handler returned have finished
C12_Witness ==
    \E c, d \in CallIds :
        /\ Valid(c) /\ calls[c].pc = "done" /\ HandlerRaised(c)
        /\ Valid(d) /\ calls[d].pc = "done"
        /\ Count(calls[d].trace, "handler_end", "returned") = 1

\* the handlers object has no method with the name derived from the type of
\* the request of call c
RoutingFault(c) == Valid(c) /\ Matching(calls[c].request.type) \notin handlers

\* C13: a call whose request names a method the handlers object does not
\* have ends like a call whose handler raised: the entry point returns the
\* empty EventResponse and raises nothing, the status is INTERNAL with the
\* error flag and details set, the metric "error" is emitted once, no success
\* metric is emitted, and no handler method is invoked.
C13_RoutingFaultContained ==
    \A c \in CallIds :
        RoutingFault(c) =>
            /\ calls[c].handled = <<>>
            /\ SuccessMetrics(c) = 0
            /\ calls[c].pc = "done" =>
                   /\ calls[c].exc = <<>>
                   /\ calls[c].ret = <<"EventResponse()">>
                   /\ StatusOf(calls[c]) = "INTERNAL"
                   /\ getattr(calls[c].context, "error", FALSE)
                   /\ "details" \in DOMAIN calls[c].context
                   /\ ErrorMetrics(c) = 1
                   /\ Count(calls[c].trace, "log", "FAIL") = 1

\* a call with a routing fault has finished, and so has a call whose handler
\* raised, both on a handlers object that has only one of the two methods
C13_Witness ==
    \E c, d \in CallIds :
        /\ RoutingFault(c) /\ calls[c].pc = "done"
        /\ Valid(d) /\ calls[d].pc = "done" /\ HandlerRaised(d)

\* the stop() in progress, or the one that returned last, repeats the
\* argument of the stop() before it
Repeated == stops > MaxStops

\* C14: a second stop() with the same argument changes nothing that the
\* first one left: its set() finds the stop event set and its server.stop
\* finds the server stopped, neither changes the server, the event or any
\* call, a grace timer it starts finds no call left to cancel, it has no
\* running call to wait for, and it does not raise.
C14_StopIdempotent ==
    [][/\ stopPc' # "raised"
       /\ (stops' > MaxStops /\ stops' = stops + 1) =>
              /\ stop_event /\ stop_event'
              /\ serverStage = "stopped" /\ serverStage' = "stopped"
              /\ calls' = calls
              /\ cancel_running' = cancel_running
       /\ (Repeated /\ stopPc = "server_stop" /\ stopPc' # "server_stop") =>
              /\ stop_event' = stop_event
              /\ serverStage' = serverStage
              /\ calls' = calls
              /\ (grace_timer' # grace_timer) => cancel_all_calls = calls
       /\ (Repeated /\ stopPc' = "shutdown_wait") => active_rpc_count = 0]_vars

\* the second stop() has returned while a call accepted before the first
\* one is still in flight
C14_Witness ==
    /\ Repeated
    /\ stopPc = "returned"
    /\ \E c \in CallIds : Active(c) /\ calls[c].cancelled

\* C15: stop(cancel_running=True) aborts the calls in flight at once and does
\* not wait for them: once its server.stop has been reached every active
\* call is cancelled and stop() is never left waiting for a running call;
\* and only that flag selects the abort: a stop(cancel_running=False)
\* cancels no call.
C15_ForcefulStopDoesNotWait ==
    /\ (stops >= 1 /\ cancel_running /\ stopPc # "server_stop") =>
           /\ \A c \in CallIds : Active(c) => calls[c].cancelled
           /\ stopPc = "shutdown_wait" => active_rpc_count = 0
    /\ (stops >= 1 /\ ~cancel_running) =>
           \A c \in CallIds : ~calls[c].cancelled /\ calls[c].status # "CANCELLED"

\* C16: whenever the except clause handles the exception e of a call, the
\* details set on the call are the name of the class of e, then ": ", then
\* the message of e.
C16_DetailsKindThenMessage ==
    [][\A c \in CallIds :
          (calls[c].pc = "unwind" /\ calls[c].exc # <<>> /\ calls'[c].exc = <<>>) =>
              /\ "details" \in DOMAIN calls'[c].context
              /\ calls'[c].context["details"] =
                     <<calls[c].exc[1].kind, ": ", calls[c].exc[1].msg>>]_vars

\* call c was accepted by the server: it entered the pool
Accepted(c) == calls[c].pc \notin {"idle", "rejected", "refused"}

\* C17 as stated: no call that arrives after stop() has been called, that is
\* after stop() was entered, is accepted.
C17_NoCallAfterStopRequest ==
    \A c \in CallIds : Accepted(c) => calls[c].accepted_at = 0

\* C17: once stop() has run its self._server.stop call, and in particular
\* once stop() has returned, no new call is accepted: a call that arrives
\* from then on is refused, never enters the pipeline and reaches no handler.
C17_NoCallAfterServerStopped ==
    [][\A c \in CallIds :
          /\ (calls[c].pc = "idle" /\ calls'[c].pc # "idle"
                 /\ (serverStage = "stopped" \/ (stops >= 1 /\ stopPc = "returned"))) =>
                 /\ calls'[c].pc = "refused"
                 /\ calls'[c].trace = <<>>
                 /\ calls'[c].handled = <<>>
          /\ calls[c].pc = "refused" => calls'[c] = calls[c]]_vars

\* stop() has returned, a call that arrived before it was served and a call
\* that arrived after it was refused
C17_Witness ==
    /\ stops >= 1
    /\ stopPc = "returned"
    /\ \E c, d \in CallIds :
           /\ calls[c].pc = "released" /\ calls[c].accepted_at = 0
           /\ calls[d].pc = "refused"

\* C18: the state the stages keep on the ServicerContext belongs to one
\* call: a call enters the pool with nothing on its context, a step that
\* writes the context of one call leaves the context of every other call as
\* it is, the start timestamp on a context is the one its own call recorded,
\* and a call whose handler returned records its success metric and its
\* "OK" log and keeps the status OK whatever flags other calls, finished on
\* the same thread or running beside it, have set.
C18_CallStatePerCall ==
    [][\A c \in CallIds :
          /\ calls'[c].pc = "submitted" => calls'[c].context = <<>>
          /\ calls'[c].context # calls[c].context =>
                 \A d \in CallIds \ {c} : calls'[d].context = calls[d].context
          /\ "start_time" \in DOMAIN calls'[c].context =>
                 \E j \in DOMAIN calls'[c].trace :
                     /\ calls'[c].trace[j].ev = "start_time"
                     /\ calls'[c].trace[j].val = calls'[c].context["start_time"]
          /\ (calls[c].pc = "unwind" /\ calls'[c].pc = "done"
                 /\ Count(calls[c].trace, "handler_end", "returned") = 1) =>
                 /\ Count(Appended(c), "metric", "request." \o calls[c].request.type) = 1
                 /\ Count(Appended(c), "log", "OK") = 1
                 /\ getattr(calls'[c].context, "code", "OK") = "OK"
                 /\ ~getattr(calls'[c].context, "error", FALSE)]_vars

\* call d succeeded on the thread on which call c had failed before it,
\* while call e, failed on the other thread, still holds its error flag
C18_Witness ==
    \E c, d, e \in CallIds :
        /\ calls[c].pc = "released" /\ calls[c].status = "INTERNAL"
        /\ calls[d].pc = "done" /\ calls[d].worker = calls[c].worker
        /\ SuccessMetrics(d) = 1 /\ Count(calls[d].trace, "log", "OK") = 1
        /\ calls[e].pc = "done" /\ calls[e].worker # calls[d].worker
        /\ getattr(calls[e].context, "error", FALSE)

\* C19: when the handler of a call returned, the entry point returns exactly
\* the value the handler returned: no stage replaces or alters it on the way
\* out; the empty default EventResponse is what a finished call returns only
\* when its handler raised.
C19_ResponsePassedThrough ==
    [][\A c \in CallIds :
          Valid(c) =>
              /\ (calls[c].pc = "handler" /\ calls'[c].pc = "unwind" /\ calls'[c].exc = <<>>) =>
                     calls'[c].ret \in {<<resp>> : resp \in Responses}
              /\ (calls[c].pc = "unwind" /\ calls'[c].pc = "done" /\ calls[c].exc = <<>>) =>
                     /\ calls'[c].ret = calls[c].ret
                     /\ calls'[c].exc = <<>>
              /\ (calls'[c].pc = "done" /\ calls'[c].ret = <<"EventResponse()">>) =>
                     Count(calls'[c].trace, "handler_end", "raised") = 1]_vars

\* one call has returned the value of its handler, another the empty default
C19_Witness ==
    \E c, d \in CallIds :
        /\ calls[c].pc = "done"
        /\ Count(calls[c].trace, "handler_end", "returned") = 1
        /\ calls[c].ret = <<"EventResponse(populated)">>
        /\ calls[d].pc = "done"
        /\ calls[d].ret = <<"EventResponse()">>

\* the exception of call c is on its way to the except clause of
\* wrapped_catch_them_all
ToBeCaught(c) ==
    /\ calls[c].pc = "unwind"
    /\ calls[c].exc # <<>>
    /\ \E i \in 1..calls[c].depth : Pipeline(calls[c].entry)[i] = "log_exceptions"

\* C20: whenever the except clause of wrapped_catch_them_all handles an
\* exception, context.start_time has been set by wrapped_timeit, so it logs
\* "FAIL" with the elapsed time and never "FAIL ?".
C20_FailUnknownUnreachable ==
    \A c \in CallIds :
        /\ ToBeCaught(c) => "start_time" \in DOMAIN calls[c].context
        /\ Count(calls[c].trace, "log", "FAIL ?") = 0
        /\ ErrorMetrics(c) = Count(calls[c].trace, "log", "FAIL")

\* the except clause has handled both an exception raised by a handler and
\* the AttributeError of a missing handler method
C20_Witness ==
    \E c, d \in CallIds :
        /\ calls[c].pc = "done" /\ HandlerRaised(c)
        /\ Count(calls[c].trace, "log", "FAIL") = 1
        /\ calls[d].pc = "done" /\ RoutingFault(d)
        /\ Count(calls[d].trace, "log", "FAIL") = 1

====
